---- MODULE Spec2Model ----
(***************************************************************************)
(* Campus energy dashboard (main.py): the ingestion function               *)
(* load_and_combine_data and the BuildingManager bookkeeping class.        *)
(*                                                                         *)
(* Text is a sequence of one-character strings.  A DataFrame is a record   *)
(* [columns, rows]: the column labels in order, and the rows in order,     *)
(* each row a sequence of cells aligned with the columns.                  *)
(***************************************************************************)
EXTENDS Integers, Sequences, FiniteSets, TLC

VARIABLES
    dir,          \* the data/ directory: files in the order the OS lists them
    run,          \* which call of load_and_combine_data is executing (1 or 2)
    pc,           \* position in load_and_combine_data
    all_files,    \* the glob iterator: files not yet visited by the for loop
    df_list,      \* local df_list
    df_combined,  \* local df_combined
    stdout,       \* what the except branch printed, one entry per message
    exc,          \* the exception that left load_and_combine_data, or "None"
    first,        \* the outcome of the first call, kept for comparison
    buildings,    \* BuildingManager.buildings
    calls,        \* the add_reading calls made so far, in order
    report        \* the last value generate_report produced

vars == <<dir, run, pc, all_files, df_list, df_combined, stdout, exc, first,
          buildings, calls, report>>

ingestVars == <<dir, run, pc, all_files, df_list, df_combined, stdout, exc, first>>
mgrVars == <<buildings, calls, report>>

\* Bounds of the model.
MaxFiles == 3
MaxCalls == 4

(***************************************************************************)
(* Text helpers                                                            *)
(***************************************************************************)
RECURSIVE Split(_, _)
\* str.split(sep): the tokens between occurrences of sep (never empty list).
Split(s, sep) ==
    IF \A i \in 1..Len(s) : s[i] # sep
    THEN <<s>>
    ELSE LET i == CHOOSE k \in 1..Len(s) :
                      s[k] = sep /\ \A j \in 1..(k - 1) : s[j] # sep
         IN  <<SubSeq(s, 1, i - 1)>> \o Split(SubSeq(s, i + 1, Len(s)), sep)

Whitespace == {" ", "\t"}

RECURSIVE Strip(_)
\* str.strip(): leading and trailing whitespace removed.
Strip(s) ==
    IF s = <<>> THEN s
    ELSE IF s[1] \in Whitespace THEN Strip(Tail(s))
    ELSE IF s[Len(s)] \in Whitespace THEN Strip(SubSeq(s, 1, Len(s) - 1))
    ELSE s

UpperCase == <<"A","B","C","D","E","F","G","H","I","J","K","L","M",
               "N","O","P","Q","R","S","T","U","V","W","X","Y","Z">>
LowerCase == <<"a","b","c","d","e","f","g","h","i","j","k","l","m",
               "n","o","p","q","r","s","t","u","v","w","x","y","z">>

LowerChar(c) ==
    IF \E i \in 1..Len(UpperCase) : UpperCase[i] = c
    THEN LowerCase[CHOOSE i \in 1..Len(UpperCase) : UpperCase[i] = c]
    ELSE c

\* str.lower()
Lower(s) == [i \in 1..Len(s) |-> LowerChar(s[i])]

\* df.columns.str.strip().str.lower() on one label
CanonLabel(label) == Lower(Strip(label))

Digits == <<"0","1","2","3","4","5","6","7","8","9">>
IsDigit(c) == \E i \in 1..Len(Digits) : Digits[i] = c
DigitVal(c) == (CHOOSE i \in 1..Len(Digits) : Digits[i] = c) - 1
IsNumber(s) == s # <<>> /\ \A i \in 1..Len(s) : IsDigit(s[i])

RECURSIVE ParseInt(_)
ParseInt(s) ==
    IF s = <<>> THEN 0
    ELSE 10 * ParseInt(SubSeq(s, 1, Len(s) - 1)) + DigitVal(s[Len(s)])

(***************************************************************************)
(* Paths                                                                   *)
(***************************************************************************)
CsvSuffix == <<".", "c", "s", "v">>

\* The pattern "*.csv": the name ends in ".csv".
MatchesCsv(name) ==
    /\ Len(name) >= Len(CsvSuffix)
    /\ SubSeq(name, Len(name) - Len(CsvSuffix) + 1, Len(name)) = CsvSuffix

\* folder.glob("*.csv"): the matching files, in the order the directory
\* lists them (no sorting is applied).
Glob(d) == SelectSeq(d, LAMBDA f : MatchesCsv(f.name))

\* Path.stem: the name without its last suffix.
Stem(name) ==
    LET dots == {i \in 1..Len(name) : name[i] = "."}
    IN  IF dots = {} THEN name
        ELSE LET i == CHOOSE k \in dots : \A j \in dots : j <= k
             IN  IF 1 < i /\ i < Len(name) THEN SubSeq(name, 1, i - 1) ELSE name

(***************************************************************************)
(* DataFrames                                                              *)
(***************************************************************************)
NaN == <<>>            \* a missing cell
NaT == <<0, 0, 0>>     \* a missing point in time
None == [columns |-> <<>>, rows |-> <<>>, bound |-> FALSE]

Frame(cols, rows) == [columns |-> cols, rows |-> rows, bound |-> TRUE]

HasCol(df, label) == \E j \in 1..Len(df.columns) : df.columns[j] = label
\* The position df[label] selects (the pool holds no duplicate labels).
ColIndex(df, label) == CHOOSE j \in 1..Len(df.columns) : df.columns[j] = label

\* pd.read_csv(file, encoding="utf-8-sig"): the exception it raises, or the
\* table.  A column whose cells are all numerals is read as integers; an
\* empty cell of a text column is NaN.
ReadCsv(content) ==
    IF content.kind = "unreadable" THEN [exc |-> "OSError", df |-> None]
    ELSE IF content.kind = "malformed" THEN [exc |-> "ParserError", df |-> None]
    ELSE LET h == content.header
             r == content.rows
             numeric(j) == r # <<>> /\ \A i \in 1..Len(r) : IsNumber(r[i][j])
         IN  [exc |-> "None",
              df  |-> Frame(h, [i \in 1..Len(r) |->
                                   [j \in 1..Len(h) |->
                                       IF numeric(j) THEN ParseInt(r[i][j])
                                       ELSE r[i][j]]])]

\* df.columns = df.columns.str.strip().str.lower()
NormalizeColumns(df) ==
    Frame([j \in 1..Len(df.columns) |-> CanonLabel(df.columns[j])], df.rows)

\* df[label] = value, value a scalar: the column is overwritten when present
\* and appended otherwise.
SetColumn(df, label, value) ==
    IF HasCol(df, label)
    THEN Frame(df.columns,
               [i \in 1..Len(df.rows) |->
                   [j \in 1..Len(df.columns) |->
                       IF j = ColIndex(df, label) THEN value ELSE df.rows[i][j]]])
    ELSE Frame(Append(df.columns, label),
               [i \in 1..Len(df.rows) |-> Append(df.rows[i], value)])

RECURSIVE UnionColumns(_)
\* The labels of all frames, each once, in order of first appearance.
UnionColumns(dfs) ==
    IF dfs = <<>> THEN <<>>
    ELSE LET before == UnionColumns(SubSeq(dfs, 1, Len(dfs) - 1))
             last   == dfs[Len(dfs)].columns
         IN  before \o SelectSeq(last,
                 LAMBDA c : \A j \in 1..Len(before) : before[j] # c)

\* The rows of df laid out under the labels cols, NaN where df has no such column.
Realign(df, cols) ==
    [i \in 1..Len(df.rows) |->
        [j \in 1..Len(cols) |->
            IF HasCol(df, cols[j]) THEN df.rows[i][ColIndex(df, cols[j])] ELSE NaN]]

RECURSIVE ConcatRows(_, _)
ConcatRows(dfs, cols) ==
    IF dfs = <<>> THEN <<>>
    ELSE Realign(Head(dfs), cols) \o ConcatRows(Tail(dfs), cols)

RECURSIVE Reverse(_)
Reverse(s) == IF s = <<>> THEN <<>> ELSE Append(Reverse(Tail(s)), Head(s))

ConcatLastFirst(dfs) ==
    [exc |-> IF dfs = <<>> THEN "ValueError" ELSE "None",
     df  |-> IF dfs = <<>> THEN None
             ELSE Frame(UnionColumns(dfs), ConcatRows(Reverse(dfs), UnionColumns(dfs)))]

\* pd.concat(dfs, ignore_index=True): ValueError on an empty list, otherwise
\* the frames' rows one frame after the other.
Concat(dfs) ==
    [exc |-> IF dfs = <<>> THEN "ValueError" ELSE "None",
     df  |-> IF dfs = <<>> THEN None
             ELSE Frame(UnionColumns(dfs), ConcatRows(dfs, UnionColumns(dfs)))]

(***************************************************************************)
(* Timestamps                                                              *)
(***************************************************************************)
IsLeap(y) == (y % 4 = 0 /\ y % 100 # 0) \/ y % 400 = 0

DaysIn(m, y) ==
    IF m = 2 THEN (IF IsLeap(y) THEN 29 ELSE 28)
    ELSE IF m \in {4, 6, 9, 11} THEN 30 ELSE 31

\* Whether the text is a date "a/b/yyyy" that names a day when a is read as
\* the month (dayfirst=False).  The file pool holds no other date format.
Parseable(text) ==
    LET t == Split(text, "/")
    IN  /\ Len(t) = 3
        /\ \A i \in 1..3 : IsNumber(t[i])
        /\ ParseInt(t[1]) \in 1..12
        /\ ParseInt(t[2]) \in 1..DaysIn(ParseInt(t[1]), ParseInt(t[3]))

\* The point in time <<year, month, day>> of a parseable text.
ParseDate(text) ==
    LET t == Split(text, "/")
    IN  <<ParseInt(t[3]), ParseInt(t[1]), ParseInt(t[2])>>

TimestampLabel == <<"t","i","m","e","s","t","a","m","p">>
BuildingLabel == <<"b","u","i","l","d","i","n","g">>

\* df["timestamp"] = pd.to_datetime(df["timestamp"], dayfirst=False):
\* KeyError without the column, ValueError on a text that is no date,
\* NaT for a missing cell.
ToDatetimeColumn(df) ==
    IF ~HasCol(df, TimestampLabel) THEN [exc |-> "KeyError", df |-> None]
    ELSE LET k == ColIndex(df, TimestampLabel)
         IN  IF \E i \in 1..Len(df.rows) :
                    df.rows[i][k] # NaN /\ ~Parseable(df.rows[i][k])
             THEN [exc |-> "ValueError", df |-> None]
             ELSE [exc |-> "None",
                   df  |-> Frame(df.columns,
                       [i \in 1..Len(df.rows) |->
                           [j \in 1..Len(df.columns) |->
                               IF j # k THEN df.rows[i][j]
                               ELSE IF df.rows[i][j] = NaN THEN NaT
                               ELSE ParseDate(df.rows[i][j])]])]

(***************************************************************************)
(* The directory: the file names and file contents of data/                *)
(***************************************************************************)
NameA == <<"e","_","A","_","j",".","c","s","v">>            \* e_A_j.csv
NameB == <<"u","_","B",".","c","s","v">>                    \* u_B.csv
NameR == <<"r","e","a","d","i","n","g","s",".","c","s","v">> \* readings.csv
NameT == <<"n","_","C",".","t","x","t">>                    \* n_C.txt
Names == {NameA, NameB, NameR, NameT}

NoTable(kind) == [kind |-> kind, header |-> <<>>, rows |-> <<>>]
Table(header, rows) == [kind |-> "table", header |-> header, rows |-> rows]

\* " Timestamp ,kWh" with two rows, the later day first
TableGood ==
    Table(<<<<" ","T","i","m","e","s","t","a","m","p"," ">>, <<"k","W","h">>>>,
          << <<<<"1","/","2","/","2","0","2","4">>, <<"5">>>>,
             <<<<"1","/","1","/","2","0","2","4">>, <<"3">>>> >>)
\* "time,kwh": no timestamp column
TableNoTimestamp ==
    Table(<<<<"t","i","m","e">>, <<"k","w","h">>>>,
          << <<<<"2","/","1","/","2","0","2","4">>, <<"7">>>> >>)
\* "TIMESTAMP,KWH" with the row 13/45/2024
TableBadTimestamp ==
    Table(<<<<"T","I","M","E","S","T","A","M","P">>, <<"K","W","H">>>>,
          << <<<<"1","3","/","4","5","/","2","0","2","4">>, <<"2">>>> >>)
\* "timestamp,kwh" and no data row
TableHeaderOnly == Table(<<TimestampLabel, <<"k","w","h">>>>, <<>>)
Contents == {NoTable("unreadable"), NoTable("malformed"),
             TableGood, TableNoTimestamp, TableBadTimestamp, TableHeaderOnly}

\* Directories of at most MaxFiles files with distinct names, in any
\* listing order.  A file the pattern does not match is never opened, so
\* one content stands for all it could hold.
Directories ==
    UNION { { d \in { [i \in 1..n |-> [name |-> ns[i], content |-> cs[i]]] :
                        ns \in {s \in [1..n -> Names] :
                                   \A i, j \in 1..n : i # j => s[i] # s[j]},
                        cs \in [1..n -> Contents] } :
                \A i \in 1..n :
                    MatchesCsv(d[i].name) \/ d[i].content = TableGood }
            : n \in 0..MaxFiles }

(***************************************************************************)
(* load_and_combine_data                                                   *)
(***************************************************************************)
DfListKeptAcrossCalls == df_list

\* df_list = []
InitialDfList == <<>>

BuildingNameFirstToken(stem) ==
    [exc |-> "None", value |-> Split(stem, "_")[1]]

\* file.stem.split("_")[1]: IndexError when the stem has a single token.
BuildingName(stem) ==
    LET t == Split(stem, "_")
    IN  IF Len(t) < 2 THEN [exc |-> "IndexError", value |-> <<>>]
        ELSE [exc |-> "None", value |-> t[2]]

AppendThenTag(file, dfl) ==
    LET r == ReadCsv(file.content)
        b == BuildingName(Stem(file.name))
    IN  IF r.exc # "None" THEN [df_list |-> dfl, exc |-> r.exc]
        ELSE [df_list |-> Append(dfl,
                  IF b.exc # "None" THEN NormalizeColumns(r.df)
                  ELSE SetColumn(NormalizeColumns(r.df), BuildingLabel, b.value)),
              exc |-> b.exc]

\* The body of the try statement for one file: df_list afterwards and the
\* exception that ended the body, if any.
TryBody(file, dfl) ==
    LET r == ReadCsv(file.content)
        b == BuildingName(Stem(file.name))
    IN  IF r.exc # "None" THEN [df_list |-> dfl, exc |-> r.exc]
        ELSE IF b.exc # "None" THEN [df_list |-> dfl, exc |-> b.exc]
        ELSE [df_list |-> Append(dfl,
                  SetColumn(NormalizeColumns(r.df), BuildingLabel, b.value)),
              exc |-> "None"]

\* What a finished call hands to its caller.
Outcome == [pc |-> pc, exc |-> exc, df |-> df_combined, stdout |-> stdout]
NoOutcome == [pc |-> "none", exc |-> "None", df |-> None, stdout |-> <<>>]

NoReport == [exc |-> "None", name |-> "", total |-> 0, peak |-> 0, at |-> 0]

Init ==
    /\ dir \in Directories
    /\ run = 1
    /\ pc = "start"
    /\ all_files = <<>>
    /\ df_list = <<>>
    /\ df_combined = None
    /\ stdout = <<>>
    /\ exc = "None"
    /\ first = NoOutcome
    /\ buildings = <<>>
    /\ calls = <<>>
    /\ report = NoReport

\* folder.glob("*.csv") and df_list = []
Start ==
    /\ pc = "start"
    /\ all_files' = Glob(dir)
    /\ df_list' = InitialDfList
    /\ pc' = "loop"
    /\ UNCHANGED <<dir, run, df_combined, stdout, exc, first>>
    /\ UNCHANGED mgrVars

\* One iteration of the for loop: the try body, and the except branch that
\* prints the error and goes on to the next file.
LoadFile ==
    /\ pc = "loop"
    /\ all_files # <<>>
    /\ LET file == Head(all_files)
           r    == TryBody(file, df_list)
       IN  /\ df_list' = r.df_list
           /\ stdout' = IF r.exc # "None"
                        THEN Append(stdout, [file |-> file.name, exc |-> r.exc])
                        ELSE stdout
    /\ all_files' = Tail(all_files)
    /\ UNCHANGED <<dir, run, pc, df_combined, exc, first>>
    /\ UNCHANGED mgrVars

\* df_combined = pd.concat(df_list, ignore_index=True), after the loop
ConcatStep ==
    /\ pc = "loop"
    /\ all_files = <<>>
    /\ LET r == Concat(df_list)
       IN  /\ df_combined' = r.df
           /\ exc' = r.exc
           /\ pc' = IF r.exc # "None" THEN "raised" ELSE "coerce"
    /\ UNCHANGED <<dir, run, all_files, df_list, stdout, first>>
    /\ UNCHANGED mgrVars

\* The timestamp conversion and the return
CoerceStep ==
    /\ pc = "coerce"
    /\ LET r == ToDatetimeColumn(df_combined)
       IN  /\ df_combined' = r.df
           /\ exc' = r.exc
           /\ pc' = IF r.exc # "None" THEN "raised" ELSE "done"
    /\ UNCHANGED <<dir, run, all_files, df_list, stdout, first>>
    /\ UNCHANGED mgrVars

\* A second call on the unchanged directory.  The new call's locals are
\* bound by its own statements; the output of the first call is set aside.
CallAgain ==
    /\ pc \in {"done", "raised"}
    /\ run = 1
    /\ first' = Outcome
    /\ run' = 2
    /\ pc' = "start"
    /\ all_files' = <<>>
    /\ df_combined' = None
    /\ stdout' = <<>>
    /\ exc' = "None"
    /\ UNCHANGED <<dir, df_list>>
    /\ UNCHANGED mgrVars

Next == Start \/ LoadFile \/ ConcatStep \/ CoerceStep \/ CallAgain

Spec == Init /\ [][Next]_vars

(***************************************************************************)
(* MeterReading, Building, BuildingManager                                 *)
(***************************************************************************)
BuildingNames == {"A", "B"}
\* MeterReading(timestamp, kwh)
Readings == {[timestamp |-> 1, kwh |-> 5], [timestamp |-> 2, kwh |-> 3],
             [timestamp |-> 3, kwh |-> 5]}

\* Building.__init__
Building(name) == [name |-> name, meter_readings |-> <<>>]

\* Building.add_reading
BuildingAddReading(b, reading) ==
    [b EXCEPT !.meter_readings = Append(@, reading)]

RECURSIVE SumKwh(_)
SumKwh(rs) == IF rs = <<>> THEN 0 ELSE Head(rs).kwh + SumKwh(Tail(rs))

\* Building.total_consumption
TotalConsumption(b) == SumKwh(b.meter_readings)

\* Building.generate_report: max() raises ValueError on an empty list and
\* returns the first reading of maximal kwh otherwise.
GenerateReport(b) ==
    IF b.meter_readings = <<>>
    THEN [exc |-> "ValueError", name |-> b.name, total |-> 0, peak |-> 0, at |-> 0]
    ELSE LET rs == b.meter_readings
             i  == CHOOSE k \in 1..Len(rs) :
                       /\ \A j \in 1..Len(rs) : rs[j].kwh <= rs[k].kwh
                       /\ \A j \in 1..(k - 1) : rs[j].kwh < rs[k].kwh
         IN  [exc |-> "None", name |-> b.name, total |-> TotalConsumption(b),
              peak |-> rs[i].kwh, at |-> rs[i].timestamp]

ManagerAddReadingAlwaysNew(bs, name, reading) ==
    [k \in DOMAIN bs \cup {name} |->
        IF k = name THEN BuildingAddReading(Building(name), reading) ELSE bs[k]]

\* BuildingManager.add_reading: the dictionary afterwards.
ManagerAddReading(bs, name, reading) ==
    LET known == IF name \notin DOMAIN bs
                 THEN [k \in DOMAIN bs \cup {name} |->
                          IF k = name THEN Building(name) ELSE bs[k]]
                 ELSE bs
    IN  [known EXCEPT ![name] = BuildingAddReading(@, reading)]

InitMgr ==
    /\ dir = <<>>
    /\ run = 1
    /\ pc = "start"
    /\ all_files = <<>>
    /\ df_list = <<>>
    /\ df_combined = None
    /\ stdout = <<>>
    /\ exc = "None"
    /\ first = NoOutcome
    /\ buildings = <<>>
    /\ calls = <<>>
    /\ report = NoReport

\* manager.add_reading(name, reading)
AddReading ==
    /\ Len(calls) < MaxCalls
    /\ \E name \in BuildingNames, reading \in Readings :
          /\ buildings' = ManagerAddReading(buildings, name, reading)
          /\ calls' = Append(calls, [name |-> name, reading |-> reading])
    /\ UNCHANGED report
    /\ UNCHANGED ingestVars

\* manager.buildings[k].generate_report()
Report ==
    /\ \E k \in DOMAIN buildings : report' = GenerateReport(buildings[k])
    /\ UNCHANGED <<buildings, calls>>
    /\ UNCHANGED ingestVars

NextMgr == AddReading \/ Report

SpecMgr == InitMgr /\ [][NextMgr]_vars

(***************************************************************************)
(* Vocabulary of the properties                                            *)
(***************************************************************************)
\* The files the call discovers, and those the loop has already visited.
Discovered == Glob(dir)
Processed == SubSeq(Discovered, 1, Len(Discovered) - Len(all_files))
Terminal == pc \in {"done", "raised"}

HasUnderscore(name) == \E i \in 1..Len(Stem(name)) : Stem(name)[i] = "_"
\* The try body raises nothing on f.
Loads(f) == f.content.kind = "table" /\ HasUnderscore(f.name)
HasTimestamp(f) ==
    \E j \in 1..Len(f.content.header) :
        CanonLabel(f.content.header[j]) = TimestampLabel
TsIndex(f) ==
    CHOOSE j \in 1..Len(f.content.header) :
        CanonLabel(f.content.header[j]) = TimestampLabel
\* The four per-file failures of the error taxonomy.
FatalToFile(f) == ~Loads(f) \/ ~HasTimestamp(f)
HasBadRow(f) ==
    /\ Loads(f) /\ HasTimestamp(f)
    /\ \E i \in 1..Len(f.content.rows) :
          /\ f.content.rows[i][TsIndex(f)] # <<>>
          /\ ~Parseable(f.content.rows[i][TsIndex(f)])
Clean(f) == Loads(f) /\ HasTimestamp(f) /\ ~HasBadRow(f)
WellFormed(f) == Clean(f) /\ f.content.rows # <<>>
Recorded(f) == \E i \in 1..Len(stdout) : stdout[i].file = f.name

RECURSIVE SourceRows(_)
\* The rows of the files that load, file after file: which file and which
\* row of it each one is.
SourceRows(files) ==
    IF files = <<>> THEN <<>>
    ELSE LET f == Head(files)
         IN  (IF Loads(f)
              THEN [i \in 1..Len(f.content.rows) |-> [file |-> f, row |-> i]]
              ELSE <<>>) \o SourceRows(Tail(files))

Cell(df, k, label) == df.rows[k][ColIndex(df, label)]

\* b is the text between the first underscore of stem and the next one
\* (or the end of stem).
IsSecondToken(stem, b) ==
    \E i \in 1..Len(stem) :
        /\ stem[i] = "_"
        /\ \A k \in 1..(i - 1) : stem[k] # "_"
        /\ \E j \in (i + 1)..(Len(stem) + 1) :
              /\ j = Len(stem) + 1 \/ stem[j] = "_"
              /\ \A k \in (i + 1)..(j - 1) : stem[k] # "_"
              /\ b = SubSeq(stem, i + 1, j - 1)

\* Point in time a is later than b.
Later(a, b) ==
    \/ a[1] > b[1]
    \/ a[1] = b[1] /\ a[2] > b[2]
    \/ a[1] = b[1] /\ a[2] = b[2] /\ a[3] > b[3]

\* Row k of df_combined holds the cells of row s.row of file s.file, under
\* the canonical labels of that file.
CellsMatch(k, s) ==
    LET h   == s.file.content.header
        raw == s.file.content.rows[s.row]
    IN  \A j \in 1..Len(h) :
          /\ HasCol(df_combined, CanonLabel(h[j]))
          /\ LET cell == Cell(df_combined, k, CanonLabel(h[j]))
             IN  IF CanonLabel(h[j]) = TimestampLabel
                 THEN IF pc = "done"
                      THEN cell = (IF raw[j] = <<>> THEN NaT ELSE ParseDate(raw[j]))
                      ELSE cell = raw[j]
                 ELSE IF IsNumber(raw[j]) THEN cell = ParseInt(raw[j])
                 ELSE cell = raw[j]

(***************************************************************************)
(* Properties                                                              *)
(***************************************************************************)

\* C1: a run over a directory with a file that is fatal-to-file (unreadable,
\* malformed, building name unparseable, timestamp column missing), all
\* other files being clean, ends normally, has recorded every such file,
\* and returns exactly the rows of the other files.
C1_FatalFileNeverAborts ==
    ( /\ Terminal
      /\ \E i \in 1..Len(Discovered) : FatalToFile(Discovered[i])
      /\ \A i \in 1..Len(Discovered) :
            FatalToFile(Discovered[i]) \/ Clean(Discovered[i]) )
    => /\ pc = "done"
       /\ \A i \in 1..Len(Discovered) :
             FatalToFile(Discovered[i]) => Recorded(Discovered[i])
       /\ Len(df_combined.rows) =
             Len(SourceRows(SelectSeq(Discovered, LAMBDA f : ~FatalToFile(f))))

\* C2: with no matching file in the directory the call ends normally with
\* an empty dataset and nothing recorded.
C2_EmptyDirectoryReturnsEmpty ==
    (Terminal /\ Discovered = <<>>)
    => /\ pc = "done"
       /\ exc = "None"
       /\ df_combined.rows = <<>>
       /\ stdout = <<>>

\* C3: when every one of the M >= 1 files fails, the call still ends
\* normally, with an empty dataset and M recorded failures.
C3_AllFilesFailReturnsEmpty ==
    ( /\ Terminal
      /\ Discovered # <<>>
      /\ \A i \in 1..Len(Discovered) : FatalToFile(Discovered[i]) )
    => /\ pc = "done"
       /\ df_combined.rows = <<>>
       /\ Len(stdout) = Len(Discovered)

\* C4: the dataset is the concatenation of the batches of the files that
\* loaded: files in discovery order, each file's rows in file order, as
\* many rows as the batches hold together.
C4_DatasetIsConcatenation ==
    pc \in {"coerce", "done"} =>
        LET src == SourceRows(Discovered)
        IN  /\ Len(df_combined.rows) = Len(src)
            /\ \A k \in 1..Len(src) : CellsMatch(k, src[k])

\* A returned dataset of two or more batches whose rows are not in
\* chronological order.
C4_Witness ==
    /\ pc = "done"
    /\ Len(df_list) >= 2
    /\ HasCol(df_combined, TimestampLabel)
    /\ \E k \in 1..(Len(df_combined.rows) - 1) :
          Later(Cell(df_combined, k, TimestampLabel),
                Cell(df_combined, k + 1, TimestampLabel))

\* C5: every file the loop has visited has exactly one outcome, a batch in
\* df_list or a printed failure; after the loop that is every discovered
\* file.
C5_OneOutcomePerFile ==
    pc # "start" =>
        /\ Len(df_list) + Len(stdout) = Len(Processed)
        /\ (pc \in {"coerce", "done", "raised"} =>
                Len(df_list) + Len(stdout) = Len(Discovered))
        /\ \A i, j \in 1..Len(stdout) : i # j => stdout[i].file # stdout[j].file
        /\ \A i \in 1..Len(stdout) :
              \E n \in 1..Len(Processed) : Processed[n].name = stdout[i].file

\* A finished call with both successes and failures.
C5_Witness ==
    /\ Terminal
    /\ Len(Discovered) >= 2
    /\ Len(df_list) >= 1
    /\ Len(stdout) >= 1

\* C6: every row of a loaded file carries the second underscore-delimited
\* token of the file's stem as its building; a table whose stem has a single
\* token is recorded as failed with IndexError and contributes no batch,
\* and every other file that loads still has its batch in df_list.
C6_BuildingFromFileName ==
    pc # "start" =>
        LET ok  == SelectSeq(Processed, Loads)
            src == SourceRows(Discovered)
        IN  /\ Len(df_list) = Len(ok)
            /\ \A i \in 1..Len(ok) :
                  /\ HasCol(df_list[i], BuildingLabel)
                  /\ Len(df_list[i].rows) = Len(ok[i].content.rows)
                  /\ \A r \in 1..Len(df_list[i].rows) :
                        IsSecondToken(Stem(ok[i].name),
                                      Cell(df_list[i], r, BuildingLabel))
            /\ \A n \in 1..Len(Processed) :
                  (Processed[n].content.kind = "table"
                      /\ ~HasUnderscore(Processed[n].name))
                  => \E i \in 1..Len(stdout) :
                        stdout[i] = [file |-> Processed[n].name,
                                     exc |-> "IndexError"]
            /\ (pc = "done" =>
                  /\ Len(df_combined.rows) = Len(src)
                  /\ \A k \in 1..Len(src) :
                        IsSecondToken(Stem(src[k].file.name),
                                      Cell(df_combined, k, BuildingLabel)))

\* A returned dataset from a directory that also holds a table whose name
\* has no underscore.
C6_Witness ==
    /\ pc = "done"
    /\ df_combined.rows # <<>>
    /\ \E i \in 1..Len(Discovered) :
          /\ Discovered[i].content.kind = "table"
          /\ ~HasUnderscore(Discovered[i].name)

\* C7: every batch merged into a returned dataset has a timestamp and a
\* building column; a file without a timestamp column is recorded as failed
\* and none of its rows is in the dataset.
C7_TimestampColumnRequired ==
    pc = "done" =>
        /\ \A i \in 1..Len(df_list) :
              HasCol(df_list[i], TimestampLabel) /\ HasCol(df_list[i], BuildingLabel)
        /\ \A i \in 1..Len(Discovered) :
              ~HasTimestamp(Discovered[i]) => Recorded(Discovered[i])
        /\ Len(df_combined.rows) =
              Len(SourceRows(SelectSeq(Discovered, HasTimestamp)))

\* C8: in a run over well-formed files and files that load but hold a row
\* with an unparseable timestamp, at least one of each, the call returns a
\* dataset that holds every row of the well-formed files with its parsed
\* timestamp.
C8_UnparseableRowNotFatal ==
    ( /\ Terminal
      /\ \E i \in 1..Len(Discovered) : HasBadRow(Discovered[i])
      /\ \E i \in 1..Len(Discovered) : WellFormed(Discovered[i])
      /\ \A i \in 1..Len(Discovered) :
            HasBadRow(Discovered[i]) \/ WellFormed(Discovered[i]) )
    => /\ pc = "done"
       /\ \A i \in 1..Len(Discovered) :
             WellFormed(Discovered[i]) =>
                \A r \in 1..Len(Discovered[i].content.rows) :
                   \E k \in 1..Len(df_combined.rows) :
                      /\ IsSecondToken(Stem(Discovered[i].name),
                                       Cell(df_combined, k, BuildingLabel))
                      /\ Cell(df_combined, k, TimestampLabel) =
                            ParseDate(Discovered[i].content.rows[r][TsIndex(Discovered[i])])

ReadingsFor(k) ==
    LET sel == SelectSeq(calls, LAMBDA c : c.name = k)
    IN  [i \in 1..Len(sel) |-> sel[i].reading]

\* C10: after any sequence of add_reading calls, buildings has an entry for
\* exactly the names used; entry k is named k and holds, in call order,
\* exactly the readings added under k (so it is never empty and other names'
\* calls never touch it); generate_report on an entry never raises.
C10_ManagerKeepsReadings ==
    /\ DOMAIN buildings = {calls[i].name : i \in 1..Len(calls)}
    /\ \A k \in DOMAIN buildings :
          /\ buildings[k].name = k
          /\ buildings[k].meter_readings # <<>>
          /\ buildings[k].meter_readings = ReadingsFor(k)
    /\ report.exc = "None"

\* Two buildings, one with several readings, and a report produced.
C10_Witness ==
    /\ DOMAIN buildings = BuildingNames
    /\ Len(buildings["A"].meter_readings) >= 2
    /\ report.name = "A"
    /\ report.total >= 8
====
